---- MODULE Spec2Model ----
(***************************************************************************)
(* Batch-job orchestration of the term extractor                           *)
(* (TermExtractor.process_data and _wait_for_batch_completion in           *)
(* src/term_extractor.py) together with its two callers: the GUI worker    *)
(* (_run_extraction_with_params in src/term_extractor_gui.py) and the      *)
(* command line entry point (main in src/term_extractor.py).               *)
(*                                                                         *)
(* The worker thread walks through process_data; its position is pc.  A    *)
(* remote call is two steps (started, returned) so that the GUI thread     *)
(* (_stop_extraction) and the remote service can act while it is in        *)
(* flight.  The zhipuai library is taken to be installed: both callers     *)
(* refuse to call process_data otherwise.                                  *)
(***************************************************************************)
EXTENDS Integers, Sequences, FiniteSets, TLC

\* ---------------------------------------------------------------- bounds
MaxRows == 2        \* longest input table explored
MaxRuns == 2        \* invocations of process_data explored per behaviour
MaxIter == 4        \* value at which the poll counter `iteration` saturates
MaxLog  == 2        \* status checks kept individually in the call log

\* ------------------------------------------------------ program constants
FastPolls    == 3   \* `if iteration < 3`
FastInterval == 5   \* time.sleep(5)
SlowInterval == 15  \* time.sleep(15)

\* Progress values are written in units of 1/3000, in which 0.1, 0.8, 0.9
\* and the 0.8/300 of one elapsed second are whole numbers.
EstimatedTotalTime == 300   \* estimated_total_time = 300
ProgressBase == 300         \* 0.1
ProgressSpan == 2400        \* 0.8
ProgressCap  == 2700        \* 0.9

VARIABLES
    caller,          \* "gui" | "cli": which program drives the extractor
    stop_event,      \* state of the GUI's threading.Event (unused by cli)
    pc,              \* position of the worker thread
    runs,            \* invocations of process_data started so far
    rows,            \* df: the text of each input row, a RowTexts value
    idx,             \* prepare_batch_jsonl: position of the row loop (1-based)
    written,         \* prepare_batch_jsonl: custom_ids written to the JSONL
    remote_status,   \* status of the job at the remote service
    remote_output,   \* whether the remote job carries an output_file_id
    batch_id,        \* self.batch_id
    input_file_id,   \* self.input_file_id
    output_file_id,  \* self.output_file_id
    error_file_id,   \* self.error_file_id
    status,          \* _wait_for_batch_completion: dict of the last check
    wait_ret,        \* value returned by _wait_for_batch_completion
    iteration,       \* _wait_for_batch_completion: iteration
    sleep_for,       \* seconds of the time.sleep in progress (0: none)
    progress,        \* last value delivered to progress_callback by the loop
    waits,           \* history: the sleeps of this wait, in order
    checks_since_wait, \* history: status checks started since the last sleep
    status_text,     \* last text delivered to status_callback
    complete_count,  \* calls of complete_callback in this invocation
    view,            \* what the caller shows to the user
    calls,           \* history: remote calls started in this invocation
    failed_call,     \* history: the call that raised, or "none"
    end_kind,        \* history: the path on which process_data ended
    cancel_observed, \* history: the poll loop saw the stop flag
    call_after_cancel,   \* history: a remote call started after that
    call_after_failure,  \* history: a remote call started after a raise
    calls_while_stopped, \* history: calls started with the flag set
    terminal_seen,   \* history: a poll returned a terminal status
    check_after_terminal, \* history: a status check started after that
    seen,            \* history: <<end_kind, outcome>> of finished runs
    fn,              \* json_utils: the function that was called, or "none"
    input_str,       \* json_utils: the text handed to it
    expected_keys,   \* json_utils: expected_keys of fix_json_response
    HAS_JSON_REPAIR, \* json_utils: the build's json_repair, a LibModes value
    out,             \* json_utils: what the call produced
    HAS_JSON_UTILS,  \* term_extractor: whether json_utils was imported
    ids,             \* df[id_col]: the id of each input row, as a text
    results_file,    \* the downloaded result lines
    line_no,         \* parse_batch_results: position of the line loop
    results          \* parse_batch_results: the records collected so far

vars == <<caller, stop_event, pc, runs, rows, idx, written, remote_status,
          remote_output, batch_id, input_file_id, output_file_id,
              error_file_id, progress, waits, checks_since_wait, status,
          wait_ret, iteration, sleep_for, status_text, complete_count, view,
          calls, failed_call, end_kind, cancel_observed, call_after_cancel,
          call_after_failure, calls_while_stopped, terminal_seen,
          check_after_terminal, seen,
          fn, input_str, expected_keys, HAS_JSON_REPAIR, out,
          HAS_JSON_UTILS, ids, results_file, line_no, results>>
jsonVars == <<fn, input_str, expected_keys, HAS_JSON_REPAIR, out>>
parseVars == <<HAS_JSON_UTILS, ids, results_file, line_no, results>>
textVars == <<jsonVars, parseVars>>

\* ------------------------------------------------------------- data sets
Callers == {"gui", "cli"}
RowTexts == {"text", "blank", "spaces"}   \* "spaces": whitespace only
RowSeqs == UNION {[1..n -> RowTexts] : n \in 0..MaxRows}
NonTerminal == {"pending", "running"}
Terminal == {"completed", "failed", "canceled"}
NoStatus == [status |-> "none", output_file_id |-> FALSE]
NoText == [msg |-> "none", arg |-> "none"]
NoProgress == [value |-> 0, on |-> "none", at |-> 0]
Text(m) == [msg |-> m, arg |-> "none"]
TextOf(m, a) == [msg |-> m, arg |-> a]

\* ------------------------------------------------------- pure operators
Min(a, b) == IF a < b THEN a ELSE b

\* `self.stop_event and self.stop_event.is_set()`: the extractor built by
\* main() keeps stop_event = None, the GUI's extractor shares its Event.
StopIsSet == caller = "gui" /\ stop_event

\* set_status: a no-op unless a status callback was installed (GUI only).
set_status(t) == IF caller = "gui" THEN t ELSE status_text

\* notify_complete: a no-op unless a complete callback was installed.
notify_complete == IF caller = "gui" THEN complete_count + 1
                   ELSE complete_count

\* The call log; status checks beyond MaxLog are folded into the last one.
ChecksIn(s) == Cardinality({i \in 1..Len(s) : s[i] = "check"})
Record(s, c) == IF c = "check" /\ ChecksIn(s) >= MaxLog THEN s
                ELSE Append(s, c)

\* str(i) for a row index, as a sequence of digit characters.
Digits == <<"0", "1", "2", "3", "4", "5", "6", "7", "8", "9">>
Str(i) == IF i < 10 THEN <<Digits[i + 1]>>
          ELSE <<Digits[(i \div 10) + 1], Digits[(i % 10) + 1]>>

\* prepare_batch_jsonl, line 288: custom_id = f"request-row{idx}".  A text
\* is a sequence of characters; the literal "request-row" is kept as the
\* one item "R".
CustomId(i) == <<"R">> \o Str(i)

\* prepare_batch_jsonl, line 280: the test that skips a row,
\* `not text_content or text_content.strip() == ""`.
SkipRow_NoStrip(t) == t = "blank"
SkipRow(t) == t = "blank" \/ t = "spaces"

\* First statement of the poll loop: leave on a set stop flag, else poll.
PollTickGoes_NoCancelCheck(stopped) == "check"
PollTickGoes(stopped) == IF stopped THEN "cancel" ELSE "check"

\* Tail of the poll loop, on the dict returned by check_batch_status.
AfterCheck_MissesCanceled(st) ==
    IF st.status = "completed" THEN "return_status"
    ELSE IF st.status \in {"failed"} THEN "return_none"
    ELSE "sleep"
AfterCheck_UnknownEnds(st) ==
    IF st.status = "completed" THEN "return_status"
    ELSE IF st.status # "running" THEN "return_none"
    ELSE "sleep"
AfterCheck(st) ==
    IF st.status = "completed" THEN "return_status"
    ELSE IF st.status \in {"failed", "canceled"} THEN "return_none"
    ELSE "sleep"

\* The sleep between two polls.
SleepInterval_AlwaysFast(it) == FastInterval
SleepInterval(it) == IF it < FastPolls THEN FastInterval ELSE SlowInterval

\* Lines 197-204: the progress shown for a running job.  e is elapsed_time,
\* the difference of two readings of time.time(), taken as never negative;
\* `progress` is read from the dict when the dict has it.
ProgressOf_Unclamped(st, e) ==
    IF "progress" \in DOMAIN st
       THEN ProgressBase + st.progress * ProgressSpan
       ELSE ProgressBase + (e * ProgressSpan) \div EstimatedTotalTime
ProgressOf(st, e) ==
    IF "progress" \in DOMAIN st
       THEN ProgressBase + st.progress * ProgressSpan
       ELSE Min(ProgressBase + (e * ProgressSpan) \div EstimatedTotalTime,
                ProgressCap)

\* Lines 198-224: what progress_callback is given after a status check
\* (installed by the GUI only): the estimate for a running job, 0.9 for a
\* completed one, nothing otherwise; `on` and `at` remember the status and
\* the elapsed time of the report.
Reported(st, e) ==
    IF caller # "gui" THEN progress
    ELSE IF st.status = "running"
            THEN [value |-> ProgressOf(st, e), on |-> "running", at |-> e]
    ELSE IF st.status = "completed"
            THEN [value |-> ProgressCap, on |-> "completed", at |-> e]
    ELSE progress

\* The sleeps of one wait, in order; beyond MaxIter + 1 of them the last
\* entry stands for every later sleep.
RecordWait(ws, w) ==
    IF Len(ws) <= MaxIter THEN Append(ws, w)
    ELSE [ws EXCEPT ![Len(ws)] = w]

\* Readings of elapsed_time, in seconds (197): one that is not before the
\* last one shown, where the value is used (198-204), else any.
ElapsedSamples == {0, 5, 150, 300, 400}
Elapsed(s) ==
    IF caller = "gui" /\ s = "running"
       THEN {t \in ElapsedSamples : t >= progress.at}
       ELSE {progress.at}

\* process_data after _wait_for_batch_completion returned r (with dict st).
AfterWait_NoOutputCheck(r, st) ==
    IF r = "None" \/ st.status # "completed" THEN "return"
    ELSE "download"
AfterWait(r, st) ==
    IF r = "None" \/ st.status # "completed" THEN "return"
    ELSE IF ~st.output_file_id THEN "no_output"
    ELSE "download"

\* process_data when the remote call c raised: the except clause.
OnRaise_Retries(c) == IF c = "upload" THEN "upload_start" ELSE "except"
OnRaise_GoesOn(c) == IF c = "download" THEN "parse" ELSE "except"
OnRaise(c) == "except"

\* What process_data hands to its caller: its return value, and whether an
\* exception left it.  Every return statement is a bare `return` and the
\* except clause swallows the exception.
Outcome(kind) == [ret |-> "None", raised |-> FALSE]

\* ================================================== texts and JSON
\* A text is a sequence of characters.  A few multi-character lexemes are
\* kept as one item: the literals "true" and "terms", "big" (an integer
\* literal of more than 4300 digits), "w" (prose such as `no json here`),
\* "F" (the opening fence ```json\n) and "E" (the closing fence \n```).
\* Texts carry no other whitespace and no backslash.
DQ == "\""
SQ == "'"
EDQ == "\\\""                    \* an escaped double quote inside a string
DigitChars == {"0", "1", "2", "3", "4", "5", "6", "7", "8", "9"}
\* [a-zA-Z]... and [a-zA-Z0-9_]
AlphaChars == {"a", "b", "true", "terms", "items", "error"}
AlnumChars == AlphaChars \cup DigitChars \cup {"big"}

\* s[a:b] of Python on 1-based inclusive positions.
Slice(s, a, b) == IF b < a THEN << >> ELSE SubSeq(s, a, b)
Drop(s, n) == Slice(s, n + 1, Len(s))
StartsWith(s, p) == Len(p) <= Len(s) /\ SubSeq(s, 1, Len(p)) = p

\* str.find / str.rfind of any of the characters cs (0: not found).
FindFirst(s, cs) ==
    IF \E i \in 1..Len(s) : s[i] \in cs
       THEN CHOOSE i \in 1..Len(s) :
                s[i] \in cs /\ \A j \in 1..(i - 1) : s[j] \notin cs
       ELSE 0
FindLast(s, cs) ==
    IF \E i \in 1..Len(s) : s[i] \in cs
       THEN CHOOSE i \in 1..Len(s) :
                s[i] \in cs /\ \A j \in (i + 1)..Len(s) : s[j] \notin cs
       ELSE 0

\* str.replace(pat, rep): non-overlapping occurrences, left to right.
RECURSIVE Replace(_, _, _)
Replace(s, pat, rep) ==
    IF s = << >> THEN << >>
    ELSE IF StartsWith(s, pat) THEN rep \o Replace(Drop(s, Len(pat)), pat, rep)
    ELSE <<s[1]>> \o Replace(Drop(s, 1), pat, rep)

\* True when pat occurs in s.
Occurs(pat, s) ==
    \E i \in 1..Len(s) : StartsWith(Drop(s, i - 1), pat)

\* Removal of every occurrence of the characters cs.
Without(s, cs) == SelectSeq(s, LAMBDA c : c \notin cs)

\* ---- json.loads, as a recogniser: the position after the value that
\* starts at i, 0 for a JSONDecodeError, -1 for the ValueError that int()
\* raises on "big".  The value of a valid text is the text itself.
RECURSIVE JValue(_, _), JMembers(_, _), JElements(_, _), JDigits(_, _)
JString(s, i) ==
    IF \E j \in (i + 1)..Len(s) : s[j] = DQ
       THEN 1 + CHOOSE j \in (i + 1)..Len(s) :
                    s[j] = DQ /\ \A k \in (i + 1)..(j - 1) : s[k] # DQ
       ELSE 0
JDigits(s, i) ==
    IF i <= Len(s) /\ s[i] \in DigitChars THEN JDigits(s, i + 1) ELSE i
JValue(s, i) ==
    IF i > Len(s) THEN 0
    ELSE IF s[i] = "{" THEN
            IF i < Len(s) /\ s[i + 1] = "}" THEN i + 2 ELSE JMembers(s, i + 1)
    ELSE IF s[i] = "[" THEN
            IF i < Len(s) /\ s[i + 1] = "]" THEN i + 2 ELSE JElements(s, i + 1)
    ELSE IF s[i] = DQ THEN JString(s, i)
    ELSE IF s[i] = "0" THEN i + 1
    ELSE IF s[i] \in DigitChars THEN JDigits(s, i + 1)
    ELSE IF s[i] = "true" THEN i + 1
    ELSE IF s[i] = "big" THEN -1
    ELSE 0
JMembers(s, i) ==
    IF i > Len(s) \/ s[i] # DQ THEN 0
    ELSE LET k == JString(s, i)
         IN  IF k = 0 \/ k > Len(s) \/ s[k] # ":" THEN 0
             ELSE LET v == JValue(s, k + 1)
                  IN  IF v <= 0 THEN v
                      ELSE IF v > Len(s) THEN 0
                      ELSE IF s[v] = "," THEN JMembers(s, v + 1)
                      ELSE IF s[v] = "}" THEN v + 1
                      ELSE 0
JElements(s, i) ==
    LET v == JValue(s, i)
    IN  IF v <= 0 THEN v
        ELSE IF v > Len(s) THEN 0
        ELSE IF s[v] = "," THEN JElements(s, v + 1)
        ELSE IF s[v] = "]" THEN v + 1
        ELSE 0

\* Outcome of json.loads(s): "ok", "JSONDecodeError" or "ValueError".
Loads(s) ==
    LET r == JValue(s, 1)
    IN  IF r = -1 THEN "ValueError"
        ELSE IF r = Len(s) + 1 THEN "ok"
        ELSE "JSONDecodeError"

\* Truth value, in Python, of the value of a valid text.
Truthy(s) == s \notin {<<"{", "}">>, <<"[", "]">>, <<DQ, DQ>>, <<"0">>}
IsDict(s) == s # << >> /\ s[1] = "{"
IsList(s) == s # << >> /\ s[1] = "["

\* ---- the regular-expression substitutions of json_utils.py (re.sub:
\* leftmost matches, not overlapping, scanned left to right).

\* End of the longest run of [a-zA-Z0-9_] that starts at i (i - 1: none).
RECURSIVE RunEnd(_, _)
RunEnd(s, i) ==
    IF i <= Len(s) /\ s[i] \in AlnumChars THEN RunEnd(s, i + 1) ELSE i - 1

\* First position >= i holding one of cs (0: none).
NextOf(s, i, cs) ==
    IF \E j \in i..Len(s) : s[j] \in cs
       THEN CHOOSE j \in i..Len(s) :
                s[j] \in cs /\ \A k \in i..(j - 1) : s[k] \notin cs
       ELSE 0

\* r"(?<!\\)'([^']*?)(?<!\\)'" -> r'"\1"'
RECURSIVE SingleToDouble(_)
SingleToDouble(s) ==
    IF s = << >> THEN << >>
    ELSE LET j == NextOf(s, 2, {SQ})
         IN  IF s[1] = SQ /\ j # 0
                THEN <<DQ>> \o Slice(s, 2, j - 1) \o <<DQ>>
                         \o SingleToDouble(Drop(s, j))
                ELSE <<s[1]>> \o SingleToDouble(Drop(s, 1))

\* r'([{,]\s*)([a-zA-Z0-9_]+)(\s*:)' -> r'\1"\2"\3'
RECURSIVE QuoteKeys(_)
QuoteKeys(s) ==
    IF s = << >> THEN << >>
    ELSE LET j == RunEnd(s, 2)
         IN  IF s[1] \in {"{", ","} /\ j >= 2 /\ j < Len(s) /\ s[j + 1] = ":"
                THEN <<s[1], DQ>> \o Slice(s, 2, j) \o <<DQ, ":">>
                         \o QuoteKeys(Drop(s, j + 1))
                ELSE <<s[1]>> \o QuoteKeys(Drop(s, 1))

\* r':\s*([a-zA-Z][a-zA-Z0-9_]*)\s*([,}])' -> r': "\1"\2'
RECURSIVE QuoteWords(_)
QuoteWords(s) ==
    IF s = << >> THEN << >>
    ELSE LET j == RunEnd(s, 2)
         IN  IF /\ s[1] = ":" /\ j >= 2 /\ s[2] \in AlphaChars
                /\ j < Len(s) /\ s[j + 1] \in {",", "}"}
                THEN <<":", DQ>> \o Slice(s, 2, j) \o <<DQ, s[j + 1]>>
                         \o QuoteWords(Drop(s, j + 1))
                ELSE <<s[1]>> \o QuoteWords(Drop(s, 1))

\* r',\s*([}\]])' -> r'\1'
RECURSIVE DropTrailingCommas(_)
DropTrailingCommas(s) ==
    IF s = << >> THEN << >>
    ELSE IF s[1] = "," /\ Len(s) >= 2 /\ s[2] \in {"}", "]"}
            THEN <<s[2]>> \o DropTrailingCommas(Drop(s, 2))
    ELSE <<s[1]>> \o DropTrailingCommas(Drop(s, 1))

\* r':\s*([^",{\[\]\s][^,}\]]*?)([,}\]])' -> r': "\1"\2'
RECURSIVE QuoteRest(_)
QuoteRest(s) ==
    IF s = << >> THEN << >>
    ELSE LET j == NextOf(s, 3, {",", "}", "]"})
         IN  IF /\ s[1] = ":" /\ Len(s) >= 2
                /\ s[2] \notin {DQ, ",", "{", "[", "]"}
                /\ j # 0
                THEN <<":", DQ>> \o Slice(s, 2, j - 1) \o <<DQ, s[j]>>
                         \o QuoteRest(Drop(s, j))
                ELSE <<s[1]>> \o QuoteRest(Drop(s, 1))

\* str.count
Count(s, c) == Cardinality({i \in 1..Len(s) : s[i] = c})
Times(c, n) == [i \in 1..n |-> c]

\* Lines 74-85: append the closing braces, then brackets, that are missing.
Balance(s) ==
    LET nb == Count(s, "{") - Count(s, "}")
        s1 == IF nb > 0 THEN s \o Times("}", nb) ELSE s
        nk == Count(s1, "[") - Count(s1, "]")
    IN  IF nk > 0 THEN s1 \o Times("]", nk) ELSE s1

\* repair_json(json_str), the built-in implementation (lines 35-37, 55-96),
\* with return_objects = False.
BuiltinRepair(s) ==
    IF s = << >> THEN <<"{", "}">>
    ELSE Balance(QuoteRest(DropTrailingCommas(QuoteWords(QuoteKeys(
             SingleToDouble(s))))))

\* ---- ast.literal_eval, as a recogniser of Python literals: strings in
\* either quote, trailing commas allowed, `true` is a name and fails, an
\* oversized integer fails.  0: failure.  Dict keys are string literals.
RECURSIVE PyValue(_, _), PyMembers(_, _), PyElements(_, _)
PyString(s, i) ==
    LET j == NextOf(s, i + 1, {s[i]}) IN IF j = 0 THEN 0 ELSE j + 1
PyValue(s, i) ==
    IF i > Len(s) THEN 0
    ELSE IF s[i] = "{" THEN
            IF i < Len(s) /\ s[i + 1] = "}" THEN i + 2 ELSE PyMembers(s, i + 1)
    ELSE IF s[i] = "[" THEN
            IF i < Len(s) /\ s[i + 1] = "]" THEN i + 2 ELSE PyElements(s, i + 1)
    ELSE IF s[i] \in {DQ, SQ} THEN PyString(s, i)
    ELSE IF s[i] \in DigitChars THEN JDigits(s, i + 1)
    ELSE 0
PyMembers(s, i) ==
    IF i > Len(s) \/ s[i] \notin {DQ, SQ} THEN 0
    ELSE LET k == PyString(s, i)
         IN  IF k = 0 \/ k > Len(s) \/ s[k] # ":" THEN 0
             ELSE LET v == PyValue(s, k + 1)
                  IN  IF v = 0 \/ v > Len(s) THEN 0
                      ELSE IF s[v] = "}" THEN v + 1
                      ELSE IF s[v] # "," \/ v = Len(s) THEN 0
                      ELSE IF s[v + 1] = "}" THEN v + 2
                      ELSE PyMembers(s, v + 1)
PyElements(s, i) ==
    LET v == PyValue(s, i)
    IN  IF v = 0 \/ v > Len(s) THEN 0
        ELSE IF s[v] = "]" THEN v + 1
        ELSE IF s[v] # "," \/ v = Len(s) THEN 0
        ELSE IF s[v + 1] = "]" THEN v + 2
        ELSE PyElements(s, v + 1)
LiteralOk(s) == s # << >> /\ PyValue(s, 1) = Len(s) + 1

\* The value of a Python literal, written as JSON text.
RECURSIVE AsJson(_)
AsJson(s) ==
    IF s = << >> THEN << >>
    ELSE IF s[1] \in {DQ, SQ} THEN
            LET j == NextOf(s, 2, {s[1]})
            IN  <<DQ>> \o Replace(Slice(s, 2, j - 1), <<DQ>>, <<EDQ>>)
                    \o <<DQ>> \o AsJson(Drop(s, j))
    ELSE IF s[1] = "," /\ Len(s) >= 2 /\ s[2] \in {"}", "]"}
            THEN AsJson(Drop(s, 1))
    ELSE <<s[1]>> \o AsJson(Drop(s, 1))

\* try_parse_ast_to_json (104-125): the parsed dict, or {} when the text is
\* no literal or the literal is no dict.
EmptyObject == <<"{", "}">>
TryParseAst(s) ==
    IF LiteralOk(s) /\ IsDict(s) THEN AsJson(s) ELSE EmptyObject

\* ---- dicts as texts
\* Members of a dict text from position i on, as <<key, value>> pairs.
RECURSIVE MembersFrom(_, _)
MembersFrom(s, i) ==
    IF i > Len(s) \/ s[i] # DQ THEN << >>
    ELSE LET k == JString(s, i)
             v == JValue(s, k + 1)
         IN  <<  <<Slice(s, i + 1, k - 2), Slice(s, k + 1, v - 1)>>  >>
                 \o (IF v <= Len(s) /\ s[v] = "," THEN MembersFrom(s, v + 1)
                     ELSE << >>)
Members(d) == MembersFrom(d, 2)
Keys(d) == {Members(d)[i][1] : i \in 1..Len(Members(d))}
HasKey(d, k) == k \in Keys(d)

\* result[k] = v on a dict that lacks k, and {k: v}.
Member(k, v) == <<DQ>> \o k \o <<DQ, ":">> \o v
AddKey(d, k, v) ==
    IF d = EmptyObject THEN <<"{">> \o Member(k, v) \o <<"}">>
    ELSE Slice(d, 1, Len(d) - 1) \o <<",">> \o Member(k, v) \o <<"}">>
DictOf(k, v) == AddKey(EmptyObject, k, v)

\* fallback[key] = value for each pair, in order (a repeated key keeps its
\* place and takes the later value).
RECURSIVE DictFromPairs(_)
DictFromPairs(ps) ==
    IF ps = << >> THEN EmptyObject
    ELSE LET n == Len(ps)
             head == SubSeq(ps, 1, n - 1)
         IN  IF \E i \in 1..(n - 1) : ps[i][1] = ps[n][1]
                THEN DictFromPairs([i \in 1..(n - 1) |->
                         IF ps[i][1] = ps[n][1] THEN ps[n] ELSE ps[i]])
                ELSE AddKey(DictFromPairs(head), ps[n][1],
                            <<DQ>> \o ps[n][2] \o <<DQ>>)

\* re.findall(r'"([^"]+)"\s*:\s*"([^"]+)"', s) (251-252)
RECURSIVE FindPairs(_)
FindPairs(s) ==
    IF s = << >> THEN << >>
    ELSE LET j == NextOf(s, 2, {DQ})
             k == IF j = 0 THEN 0 ELSE NextOf(s, j + 3, {DQ})
         IN  IF /\ s[1] = DQ /\ j > 2 /\ j + 2 <= Len(s)
                /\ s[j + 1] = ":" /\ s[j + 2] = DQ /\ k > j + 3
                THEN <<  <<Slice(s, 2, j - 1), Slice(s, j + 3, k - 1)>>  >>
                         \o FindPairs(Drop(s, k))
                ELSE FindPairs(Drop(s, 1))

\* ---- json_utils.py, the chain of strategies

\* How the optional json_repair library behaves in a build: not installed,
\* installed and raising, installed and returning.
LibModes == {"absent", "raises", "returns"}

\* What the library returns when it returns: the text with its quotes
\* converted and its trailing commas stripped, values left as they are.
json_repair_lib(s) == DropTrailingCommas(SingleToDouble(s))

\* repair_json (24-101), return_objects = False.
repair_json(s, lib) ==
    IF s = << >> THEN EmptyObject
    ELSE IF lib = "returns" THEN json_repair_lib(s)
    ELSE BuiltinRepair(s)

\* re.search(r"\{.*\}") and then r"\[.*\]", DOTALL (155-170): the span from
\* the first opener to the last closer, when both exist in that order.
Span(s, open, close) ==
    LET b == FindFirst(s, {open})
        e == FindLast(s, {close})
    IN  IF b # 0 /\ e > b THEN Slice(s, b, e) ELSE << >>
Extract(s) ==
    IF Span(s, "{", "}") # << >> THEN Span(s, "{", "}")
    ELSE IF Span(s, "[", "]") # << >> THEN Span(s, "[", "]")
    ELSE s

\* Lines 172-202: fence markers removed ("F" is an opening fence, "E" a
\* closing one), doubled braces halved, quotes around [{ }] dropped, every
\* backslash turned into a space.
Unfence(s) == Without(s, {"F", "E"})
Clean(s) ==
    Replace(Replace(Replace(Replace(Replace(Unfence(s),
        <<"{", "{">>, <<"{">>),
        <<"}", "}">>, <<"}">>),
        <<DQ, "[", "{">>, <<"[", "{">>),
        <<"}", "]", DQ>>, <<"}", "]">>),
        <<EDQ>>, <<DQ>>)

\* Lines 239-241.
ManualFix(s) == QuoteWords(QuoteKeys(s))

\* Lines 251-260.
Salvage(s) == DictFromPairs(FindPairs(s))

\* The second component that try_parse_json_object hands back, with the
\* strategy that produced it; exc names an exception that escapes instead.
Parsed(v, how) == [exc |-> "none", result |-> v, via |-> how]
Escapes(e, how) == [exc |-> e, result |-> << >>, via |-> how]
NoOut == Parsed(<< >>, "none")

\* Lines 212-264, from the cleaned text on.
AfterClean(c, lib) ==
    LET f == repair_json(c, lib)
        a == TryParseAst(c)
        m == ManualFix(c)
    IN  IF Loads(f) = "ok" THEN Parsed(f, "repair")
        ELSE IF a # EmptyObject THEN Parsed(a, "ast")
        ELSE IF Loads(m) = "ok" THEN Parsed(m, "manual")
        ELSE Parsed(Salvage(c), "salvage")

\* Lines 204-210: only json.JSONDecodeError is caught.
ParseCleaned(c, lib) ==
    IF Loads(c) = "ok" THEN Parsed(c, "cleaned")
    ELSE IF Loads(c) = "ValueError" THEN Escapes("ValueError", "cleaned")
    ELSE AfterClean(c, lib)

\* try_parse_json_object (128-264).
try_parse_json_object_NoDirectParse(s, lib) ==
    IF s = << >> THEN Parsed(EmptyObject, "empty")
    ELSE ParseCleaned(Clean(Extract(s)), lib)
try_parse_json_object(s, lib) ==
    IF s = << >> THEN Parsed(EmptyObject, "empty")
    ELSE IF Loads(s) = "ValueError" THEN Escapes("ValueError", "direct")
    ELSE IF Loads(s) = "ok" /\ Truthy(s) THEN Parsed(s, "direct")
    ELSE ParseCleaned(Clean(Extract(s)), lib)

\* Lines 280-300: cut to the first { or [ and the last } or ].
Trim_Nothing(s) == s
Trim(s) ==
    LET b == FindFirst(s, {"{", "["})
        e == FindLast(s, {"}", "]"})
    IN  IF b # 0 /\ e # 0 /\ (b > 1 \/ e < Len(s)) THEN Slice(s, b, e) ELSE s

\* Lines 305-316.  "e" and "c" stand for the message and for str(content).
ErrorObject ==
    AddKey(DictOf(<<"error">>, <<DQ, "e", DQ>>), <<"content">>, <<DQ, "c", DQ>>)
AsDict(v, keys) ==
    IF IsDict(v) THEN v
    ELSE IF IsList(v) THEN DictOf(IF keys # << >> THEN keys[1] ELSE <<"items">>, v)
    ELSE ErrorObject

\* Lines 318-323.
RECURSIVE WithKeys(_, _)
WithKeys(d, keys) ==
    IF keys = << >> THEN d
    ELSE LET n == Len(keys)
             h == WithKeys(d, SubSeq(keys, 1, n - 1))
         IN  IF HasKey(h, keys[n]) THEN h ELSE AddKey(h, keys[n], <<"[", "]">>)

\* fix_json_response (266-328).
fix_json_response(content, keys, lib) ==
    LET r == try_parse_json_object(Trim(content), lib)
    IN  IF r.exc # "none" THEN r
        ELSE Parsed(WithKeys(AsDict(r.result, keys), keys), r.via)

\* ---- the texts that the json_utils functions are tried on
MaxDepth == 2
MaxElems == 2

Quoted(x) == <<DQ>> \o x \o <<DQ>>
KeyA == <<"a">>
KeyTerms == <<"terms">>

\* {"a": {"a": ... 1}}, n levels deep.
RECURSIVE Nested(_)
Nested(n) == IF n = 0 THEN <<"1">> ELSE DictOf(KeyA, Nested(n - 1))

\* [1, 1, ...], n elements.
RECURSIVE OnesFrom(_)
OnesFrom(n) ==
    IF n = 0 THEN << >>
    ELSE IF n = 1 THEN <<"1">>
    ELSE <<"1", ",">> \o OnesFrom(n - 1)
Ones(n) == <<"[">> \o OnesFrom(n) \o <<"]">>

Scalars ==
    {<<"1">>, <<"0">>, <<"true">>, Quoted(<<"a">>), Quoted(<< >>),
     Quoted(<<"a", "{", "b", "}">>)}
Arrays ==
    {Ones(n) : n \in 0..MaxElems} \cup {<<"[">> \o Nested(1) \o <<"]">>}
Objects ==
    {EmptyObject}
        \cup {Nested(n) : n \in 1..MaxDepth}
        \cup {DictOf(KeyA, v) : v \in Scalars}
        \cup {DictOf(KeyA, Ones(n)) : n \in 0..MaxElems}
        \cup {DictOf(KeyTerms, <<"[">> \o Quoted(<<"a">>) \o <<"]">>),
              DictOf(KeyTerms, <<"[">> \o DictOf(KeyA, Quoted(<<"b">>)) \o <<"]">>),
              AddKey(Nested(1), <<"b">>, Quoted(<<"a">>))}
WellFormed == Scalars \cup Arrays \cup Objects

\* The object with a comma put before its closing brace.
TrailingComma(o) == Slice(o, 1, Len(o) - 1) \o <<",", "}">>
Fenced(s) == <<"F">> \o s \o <<"E">>
InProse(s) == <<"w">> \o s \o <<"w">>

Malformed ==
    {TrailingComma(o) : o \in Objects \ {EmptyObject}}
        \cup {TrailingComma(DictOf(KeyA, TrailingComma(Nested(1))))}
        \cup {<<"{", SQ, "a", SQ, ":", SQ, "b", SQ, "}">>,
              <<"{", SQ, "a", SQ, ":", SQ, DQ, SQ, "}">>,
              <<"{", SQ, "a", SQ, ":", "1", ",", "}">>,
              <<"{", "a", ":", "1", "}">>,
              <<"{", "a", ":", "b", "}">>,
              <<"{", "a", ":", DQ, "b", DQ, ",", "}">>,
              <<"{", DQ, "a", DQ, ":", "1">>,
              <<"{", DQ, "a", DQ, ":", "[", "1">>,
              <<"{", "{", DQ, "a", DQ, ":", "1", "}", "}">>,
              <<"{", DQ, "a", DQ, ":", DQ, "b", DQ, DQ, "b", DQ, ":",
                DQ, "a", DQ, "}">>,
              <<"[", "1", ",", "]">>,
              <<"w">>, <<"}", "{">>, <<"F", "E">>}
Oversized ==
    {<<"big">>, DictOf(KeyA, <<"big">>), <<"[", "big", "]">>,
     TrailingComma(DictOf(KeyA, <<"big">>))}

Inputs ==
    {<< >>} \cup WellFormed \cup Malformed \cup Oversized
        \cup {Fenced(s) : s \in WellFormed \cup Malformed \cup Oversized}
        \cup {InProse(s) : s \in Objects \cup Arrays}
KeyLists == {<< >>, <<KeyTerms>>, <<KeyTerms, <<"items">> >>}

\* ---- term_extractor.py, from a result line to its records

\* parse_batch_results, lines 546-557: the row id of a custom_id.  The item
\* "R" is the literal "request-row", which holds a hyphen after letters.
IsDigits(s) == s # << >> /\ \A i \in 1..Len(s) : s[i] \in DigitChars
row_id_of_NoPrefixBranch(custom_id) ==
    IF StartsWith(custom_id, <<"R">>) THEN Replace(custom_id, <<"R">>, << >>)
    ELSE custom_id
row_id_of(custom_id) ==
    LET h == FindFirst(custom_id, {"-", "R"})
        head == Slice(custom_id, 1, h - 1)
    IN  IF StartsWith(custom_id, <<"R">>)
           THEN Replace(custom_id, <<"R">>, << >>)
        ELSE IF h # 0 /\ custom_id[h] = "-" /\ IsDigits(head) THEN head
        ELSE custom_id

\* The elements of a list text.
RECURSIVE ElementsFrom(_, _)
ElementsFrom(s, i) ==
    IF i > Len(s) \/ s[i] = "]" THEN << >>
    ELSE LET v == JValue(s, i)
         IN  <<Slice(s, i, v - 1)>>
                 \o (IF v <= Len(s) /\ s[v] = "," THEN ElementsFrom(s, v + 1)
                     ELSE << >>)
Elements(l) == ElementsFrom(l, 2)

\* d[k], for a key that d has (the last member of that name).
ValueOf(d, k) ==
    LET m == Members(d)
        i == CHOOSE i \in 1..Len(m) :
                 m[i][1] = k /\ \A j \in (i + 1)..Len(m) : m[j][1] # k
    IN  m[i][2]

\* str(v), as a JSON string (str(True) is "True").
StrOf(v) ==
    IF v[1] = DQ THEN v
    ELSE IF v = <<"true">> THEN Quoted(<<"True">>)
    ELSE Quoted(v)

\* _normalize_term (659-701).  The sentinel is written "unknown_term", and
\* the Chinese names of the synonym lists (676-680) are written in Latin
\* letters: shuyu, mingcheng, shuyu_mingcheng, shuyu_ming; leixing,
\* shuyu_leixing; shangxiawen, juzi.
Sentinel == Quoted(<<"unknown_term">>)
TermNames ==
    <<  <<"term">>, <<"shuyu">>, <<"name">>, <<"mingcheng">>,
        <<"shuyu_mingcheng">>, <<"shuyu_ming">>  >>
TypeNames == <<  <<"type">>, <<"leixing">>, <<"shuyu_leixing">>  >>
ContextNames ==
    <<  <<"context">>, <<"shangxiawen">>, <<"juzi">>, <<"sentence">>  >>
Resolves(d, names) ==
    \E i \in 1..Len(names) : HasKey(d, names[i]) /\ Truthy(ValueOf(d, names[i]))
Resolved_LastWins(d, names) ==
    LET i == CHOOSE i \in 1..Len(names) :
                 /\ HasKey(d, names[i]) /\ Truthy(ValueOf(d, names[i]))
                 /\ \A j \in (i + 1)..Len(names) :
                        ~(HasKey(d, names[j]) /\ Truthy(ValueOf(d, names[j])))
    IN  StrOf(ValueOf(d, names[i]))
Resolved(d, names) ==
    LET i == CHOOSE i \in 1..Len(names) :
                 /\ HasKey(d, names[i]) /\ Truthy(ValueOf(d, names[i]))
                 /\ \A j \in 1..(i - 1) :
                        ~(HasKey(d, names[j]) /\ Truthy(ValueOf(d, names[j])))
    IN  StrOf(ValueOf(d, names[i]))
FirstValue(d) ==
    LET m == Members(d)
    IN  IF \E i \in 1..Len(m) : Truthy(m[i][2])
           THEN StrOf(m[CHOOSE i \in 1..Len(m) :
                            /\ Truthy(m[i][2])
                            /\ \A j \in 1..(i - 1) : ~Truthy(m[j][2])][2])
           ELSE Sentinel
FieldNames ==
    <<  <<  <<"term">>, TermNames  >>, <<  <<"type">>, TypeNames  >>,
        <<  <<"context">>, ContextNames  >>  >>
RECURSIVE ObjectOf(_)
ObjectOf(ps) ==
    IF ps = << >> THEN EmptyObject
    ELSE AddKey(ObjectOf(SubSeq(ps, 1, Len(ps) - 1)),
                ps[Len(ps)][1], ps[Len(ps)][2])
normalize_term(t) ==
    IF t[1] = DQ THEN DictOf(<<"term">>, t)
    ELSE IF ~IsDict(t) THEN DictOf(<<"term">>, StrOf(t))
    ELSE LET found == SelectSeq(FieldNames, LAMBDA f : Resolves(t, f[2]))
             fields == [i \in 1..Len(found) |->
                            <<found[i][1], Resolved(t, found[i][2])>>]
         IN  IF Resolves(t, TermNames) THEN ObjectOf(fields)
             ELSE ObjectOf(Append(fields, <<  <<"term">>, FirstValue(t)  >>))

\* A list of terms, or the exception that ends the handling of the line.
Terms(ts) == [raised |-> FALSE, terms |-> ts]
Raises == [raised |-> TRUE, terms |-> << >>]

\* Lines 649-657: the term list of a parsed value and the loop over it.
Iterate(v) ==
    IF IsList(v) THEN Terms(Elements(v))
    ELSE IF IsDict(v)
            THEN Terms([i \in 1..Len(Members(v)) |-> Quoted(Members(v)[i][1])])
    ELSE IF v[1] = DQ
            THEN Terms([i \in 1..(Len(v) - 2) |-> Quoted(<<v[i + 1]>>)])
    ELSE Raises
TermsOf(v) ==
    IF IsDict(v)
       THEN IF HasKey(v, KeyTerms) THEN Iterate(ValueOf(v, KeyTerms))
            ELSE Terms(<< >>)
    ELSE IF IsList(v)
       THEN IF \E i \in 1..Len(Elements(v)) : Elements(v)[i] = Quoted(KeyTerms)
               THEN Raises ELSE Iterate(v)
    ELSE IF v[1] = DQ
       THEN IF Occurs(KeyTerms, v) THEN Raises ELSE Terms(<< >>)
    ELSE Raises

\* Line 657: the entries that are kept, and their normal forms.
Kept(ts) == SelectSeq(ts, Truthy)
Normal(ts) == [i \in 1..Len(ts) |-> normalize_term(ts[i])]

\* _process_api_response, method 2 (622-629): json.loads of the text without
\* its fence, catching only json.JSONDecodeError.  The pattern of method 3
\* (634) does not compile, so after a failure nothing is left to try.
Method2(content) ==
    IF Loads(Unfence(content)) = "ok" THEN Parsed(Unfence(content), "loads")
    ELSE IF Loads(Unfence(content)) = "ValueError"
            THEN Escapes("ValueError", "loads")
    ELSE Parsed(<< >>, "nothing")

\* Lines 605-647: the value that the methods leave.  Method 1 (615-619)
\* runs when the import of lines 34-38 succeeded; r is what
\* fix_json_response does on the content.
ResponseValue(content, utils, r) ==
    IF content = << >> THEN Parsed(<< >>, "nothing")
    ELSE IF utils /\ r.exc = "none" THEN r
    ELSE Method2(content)

\* Lines 645-657: the term list of that value.
TermList(v) ==
    IF v.exc # "none" THEN Raises
    ELSE IF v.via = "nothing" THEN Terms(<< >>)
    ELSE TermsOf(v.result)

\* A result line: what json.loads(line) gives, or no JSON at all.
Shapes == {"result", "garbage", "no_id", "id_not_string", "no_choices"}
Line(shape, custom_id, content) ==
    [shape |-> shape, custom_id |-> custom_id, content |-> content]

\* Line 540: data.get('custom_id', '').
CustomIdOf(line) == IF line.shape = "no_id" THEN << >> ELSE line.custom_id

\* Lines 537-569: whether the line raises before its terms are attached:
\* json.loads of the line, startswith on a custom_id that is no string, or
\* the handling of the completion.
LineRaises(line, t) ==
    \/ line.shape \in {"garbage", "id_not_string"}
    \/ line.shape # "no_choices" /\ t.raised

\* Lines 571-575: the records of a line; `from` remembers its custom_id.
Records(line, ns) ==
    IF line.shape = "no_choices" THEN << >>
    ELSE [i \in 1..Len(ns) |->
              [row_id |-> row_id_of(CustomIdOf(line)), term |-> ns[i],
               from |-> CustomIdOf(line)]]

\* Lines 576-578: an exception in a line is logged and the loop goes on.
OnLineError_Aborts(raised) == IF raised THEN "abort" ELSE "next"
OnLineError(raised) == "next"

\* ------------------------------------------------------------------ Init
AtRest ==
    /\ caller \in Callers
    /\ stop_event = FALSE
    /\ pc = "idle"
    /\ runs = 0
    /\ rows = << >>
    /\ idx = 1
    /\ written = << >>
    /\ remote_status = "none"
    /\ remote_output = FALSE
    /\ batch_id = "None"
    /\ input_file_id = "None"
    /\ output_file_id = FALSE
    /\ error_file_id = FALSE
    /\ progress = NoProgress
    /\ waits = << >>
    /\ checks_since_wait = 0
    /\ status = NoStatus
    /\ wait_ret = "unset"
    /\ iteration = 0
    /\ sleep_for = 0
    /\ status_text = NoText
    /\ complete_count = 0
    /\ view = "ready"
    /\ calls = << >>
    /\ failed_call = "none"
    /\ end_kind = "none"
    /\ cancel_observed = FALSE
    /\ call_after_cancel = FALSE
    /\ call_after_failure = FALSE
    /\ calls_while_stopped = {}
    /\ terminal_seen = FALSE
    /\ check_after_terminal = FALSE
    /\ seen = {}

Init ==
    /\ AtRest
    /\ fn = "none"
    /\ input_str = << >>
    /\ expected_keys = << >>
    /\ HAS_JSON_REPAIR = "absent"
    /\ out = NoOut
    /\ HAS_JSON_UTILS = FALSE
    /\ ids = << >>
    /\ results_file = << >>
    /\ line_no = 1
    /\ results = << >>

\* --------------------------------------------------------------- helpers
callHist == <<calls, call_after_cancel, call_after_failure,
              calls_while_stopped, check_after_terminal>>
prepVars == <<rows, idx, written>>
remoteVars == <<remote_status, remote_output>>
fieldVars == <<batch_id, input_file_id, output_file_id, error_file_id>>
pollVars == <<progress, waits, checks_since_wait>>
waitVars == <<status, wait_ret, iteration, sleep_for>>
obsVars == <<cancel_observed, terminal_seen, failed_call>>
outerVars == <<caller, stop_event, runs, view, seen, textVars>>

\* A remote call c is started by the worker thread; obs tells whether the
\* poll loop has seen the stop flag by then.
StartCallObs(c, obs) ==
    /\ calls' = Record(calls, c)
    /\ call_after_cancel' = (call_after_cancel \/ obs)
    /\ call_after_failure' = (call_after_failure \/ failed_call # "none")
    /\ calls_while_stopped' = IF StopIsSet THEN calls_while_stopped \cup {c}
                              ELSE calls_while_stopped
    /\ check_after_terminal' =
           (check_after_terminal \/ (c = "check" /\ terminal_seen))
StartCall(c) == StartCallObs(c, cancel_observed)

\* The remote call c raised: control goes where OnRaise says.
Raise(c) ==
    /\ pc' = OnRaise(c)
    /\ failed_call' = c

\* ------------------------------------------------- the callers: starting

\* GUI: _extraction_worker / _run_extraction_with_params build a fresh
\* TermExtractor sharing self.stop_event and call process_data;
\* CLI: main() builds a TermExtractor and calls process_data.
StartExtraction ==
    /\ pc = "idle"
    /\ runs < MaxRuns
    /\ \E rs \in RowSeqs : rows' = rs
    /\ runs' = runs + 1
    /\ pc' = "entry"
    /\ view' = "extracting"
    /\ idx' = 1
    /\ written' = << >>
    /\ remote_status' = "none"
    /\ remote_output' = FALSE
    /\ batch_id' = "None"
    /\ input_file_id' = "None"
    /\ output_file_id' = FALSE
    /\ error_file_id' = FALSE
    /\ progress' = NoProgress
    /\ waits' = << >>
    /\ checks_since_wait' = 0
    /\ status' = NoStatus
    /\ wait_ret' = "unset"
    /\ iteration' = 0
    /\ sleep_for' = 0
    /\ status_text' = set_status(Text("initialising"))
    /\ complete_count' = 0
    /\ calls' = << >>
    /\ failed_call' = "none"
    /\ end_kind' = "none"
    /\ cancel_observed' = FALSE
    /\ call_after_cancel' = FALSE
    /\ call_after_failure' = FALSE
    /\ calls_while_stopped' = {}
    /\ terminal_seen' = FALSE
    /\ check_after_terminal' = FALSE
    /\ UNCHANGED <<caller, stop_event, seen, textVars>>

\* ------------------------------------------------------- process_data

\* Lines 118-121: the stop check on entry.
Entry_NoStopCheck ==
    /\ pc = "entry"
    /\ pc' = "input"
    /\ end_kind' = end_kind
    /\ UNCHANGED <<outerVars, prepVars, remoteVars, fieldVars, waitVars, pollVars,
                   obsVars, callHist, status_text, complete_count>>
Entry ==
    /\ pc = "entry"
    /\ IF StopIsSet
          THEN pc' = "returned" /\ end_kind' = "stopped_at_entry"
          ELSE pc' = "input" /\ end_kind' = end_kind
    /\ UNCHANGED <<outerVars, prepVars, remoteVars, fieldVars, waitVars, pollVars,
                   obsVars, callHist, status_text, complete_count>>

\* Lines 123-127: _process_input_data; an empty frame ends the invocation.
ProcessInput ==
    /\ pc = "input"
    /\ IF rows = << >>
          THEN pc' = "returned" /\ end_kind' = "empty_input"
          ELSE pc' = "prepare" /\ end_kind' = end_kind
    /\ UNCHANGED <<outerVars, prepVars, remoteVars, fieldVars, waitVars, pollVars,
                   obsVars, callHist, status_text, complete_count>>

\* prepare_batch_jsonl, one pass of the row loop (lines 256-315), or the
\* return after the last row (318).  A set stop flag returns the path of
\* the file written so far (260), to process_data, which goes on.
PrepareRow ==
    /\ pc = "prepare"
    /\ IF idx > Len(rows) \/ StopIsSet
          THEN /\ pc' = "upload_start"
               /\ UNCHANGED <<idx, written, status_text>>
          ELSE /\ pc' = "prepare"
               /\ idx' = idx + 1
               /\ IF SkipRow(rows[idx])
                     THEN UNCHANGED <<written, status_text>>
                     ELSE /\ written' = Append(written, CustomId(idx - 1))
                          /\ status_text' =
                                IF (idx - 1) % 100 = 0
                                   THEN set_status(Text("preparing"))
                                   ELSE status_text
    /\ UNCHANGED <<outerVars, rows, remoteVars, fieldVars, waitVars, pollVars,
                   obsVars, callHist, complete_count, end_kind>>

\* Lines 139-140: upload_batch_file is called.
UploadStart ==
    /\ pc = "upload_start"
    /\ status_text' = set_status(Text("uploading"))
    /\ StartCall("upload")
    /\ pc' = "upload_inflight"
    /\ UNCHANGED <<outerVars, prepVars, remoteVars, fieldVars, waitVars, pollVars,
                   obsVars, complete_count, end_kind>>

\* upload_batch_file returns the file id (385) or re-raises (389).
UploadReturn ==
    /\ pc = "upload_inflight"
    /\ \/ pc' = "create_start" /\ failed_call' = failed_call
       \/ Raise("upload")
    /\ UNCHANGED <<outerVars, prepVars, remoteVars, fieldVars, waitVars, pollVars,
                   cancel_observed, terminal_seen, callHist, status_text,
                   complete_count, end_kind>>

\* Lines 142-143: create_batch_job is called.
CreateStart ==
    /\ pc = "create_start"
    /\ status_text' = set_status(Text("creating"))
    /\ StartCall("create")
    /\ pc' = "create_inflight"
    /\ UNCHANGED <<outerVars, prepVars, remoteVars, fieldVars, waitVars, pollVars,
                   obsVars, complete_count, end_kind>>

\* create_batch_job stores the ids and returns (419-423) or re-raises
\* (427); on return process_data enters _wait_for_batch_completion
\* (146-147, 181-183).
CreateReturn_StoresBeforeCall ==
    /\ pc = "create_inflight"
    /\ \/ /\ pc' = "wait_tick"
          /\ batch_id' = "job"
          /\ input_file_id' = "file"
          /\ remote_status' = "pending"
          /\ status_text' = set_status(Text("in_progress"))
          /\ iteration' = 0
          /\ failed_call' = failed_call
          /\ UNCHANGED <<output_file_id, error_file_id, remote_output>>
       \/ /\ Raise("create")
          /\ batch_id' = "job"
          /\ input_file_id' = "file"
          /\ UNCHANGED <<output_file_id, error_file_id, remoteVars,
                         status_text, iteration>>
    /\ UNCHANGED <<outerVars, prepVars, status, wait_ret, sleep_for, pollVars,
                   cancel_observed, terminal_seen, callHist,
                   complete_count, end_kind>>
CreateReturn ==
    /\ pc = "create_inflight"
    /\ \/ /\ pc' = "wait_tick"
          /\ batch_id' = "job"
          /\ input_file_id' = "file"
          /\ remote_status' = "pending"
          /\ status_text' = set_status(Text("in_progress"))
          /\ iteration' = 0
          /\ failed_call' = failed_call
          /\ UNCHANGED <<output_file_id, error_file_id, remote_output>>
       \/ /\ Raise("create")
          /\ UNCHANGED <<fieldVars, remoteVars, status_text, iteration>>
    /\ UNCHANGED <<outerVars, prepVars, status, wait_ret, sleep_for, pollVars,
                   cancel_observed, terminal_seen, callHist,
                   complete_count, end_kind>>

\* ------------------------------------------ _wait_for_batch_completion


\* Lines 185-193: the top of the poll loop.  A set stop flag ends the loop
\* with None; otherwise check_batch_status is called.  The test of the flag
\* and the start of the call are one step: nothing is counted against the
\* code for a flag set in the instant between the two.
WaitTick ==
    /\ pc = "wait_tick"
    /\ cancel_observed' = (cancel_observed \/ StopIsSet)
    /\ IF PollTickGoes(StopIsSet) = "cancel"
          THEN /\ status_text' = set_status(Text("user_cancelled"))
               /\ wait_ret' = "None"
               /\ pc' = "after_wait"
               /\ UNCHANGED <<callHist, checks_since_wait>>
          ELSE /\ StartCallObs("check", cancel_observed \/ StopIsSet)
               /\ checks_since_wait' = checks_since_wait + 1
               /\ pc' = "check_inflight"
               /\ UNCHANGED <<status_text, wait_ret>>
    /\ UNCHANGED <<outerVars, prepVars, remoteVars, fieldVars, status,
                   iteration, sleep_for, terminal_seen, failed_call,
                   progress, waits,
                   complete_count, end_kind>>

\* Line 457: the error_file_id that the retrieved job carries: a failed job
\* has one.
RemoteErrorFile == remote_status = "failed"

\* check_batch_status returns the dict (451-471) or re-raises (475); then
\* the rest of the loop body runs (194-238) up to the return or the sleep.
CheckReturn ==
    /\ pc = "check_inflight"
    /\ \/ \E e \in Elapsed(remote_status) :
          LET st == [status |-> remote_status,
                     output_file_id |-> remote_output]
              go == AfterCheck(st)
          IN  /\ status' = st
              /\ output_file_id' = remote_output
              /\ error_file_id' = RemoteErrorFile
              /\ progress' = Reported(st, e)
              /\ terminal_seen' = (terminal_seen \/ st.status \in Terminal)
              /\ failed_call' = failed_call
              /\ CASE go = "return_status" ->
                        /\ status_text' = set_status(TextOf("poll", st.status))
                        /\ wait_ret' = "status"
                        /\ pc' = "after_wait"
                        /\ UNCHANGED <<sleep_for, waits>>
                   [] go = "return_none" ->
                        /\ status_text' =
                               set_status(TextOf("job_failed", st.status))
                        /\ wait_ret' = "None"
                        /\ pc' = "after_wait"
                        /\ UNCHANGED <<sleep_for, waits>>
                   [] OTHER ->
                        /\ status_text' = set_status(TextOf("poll", st.status))
                        /\ sleep_for' = SleepInterval(iteration)
                        /\ waits' = RecordWait(waits, SleepInterval(iteration))
                        /\ pc' = "sleep"
                        /\ UNCHANGED wait_ret
       \/ /\ Raise("check")
          /\ UNCHANGED <<status, output_file_id, error_file_id,
                         progress, waits, terminal_seen, status_text,
                         wait_ret, sleep_for>>
    /\ UNCHANGED <<outerVars, prepVars, remoteVars, batch_id, input_file_id,
                   iteration, cancel_observed, callHist, complete_count,
                   end_kind, checks_since_wait>>

\* Lines 235-240: time.sleep returns and the counter is advanced.  The
\* counter is only ever compared with 3, so it is kept up to MaxIter.
Sleep ==
    /\ pc = "sleep"
    /\ iteration' = Min(iteration + 1, MaxIter)
    /\ sleep_for' = 0
    /\ checks_since_wait' = 0
    /\ pc' = "wait_tick"
    /\ UNCHANGED <<progress, waits>>
    /\ UNCHANGED <<outerVars, prepVars, remoteVars, fieldVars, status,
                   wait_ret, obsVars, callHist, status_text, complete_count,
                   end_kind>>

\* ------------------------------------------- process_data, after the wait

\* Lines 149-162: return on None / not completed, return on a missing
\* output_file_id, otherwise call download_batch_results.
AfterWaitStep ==
    /\ pc = "after_wait"
    /\ LET go == AfterWait(wait_ret, status)
       IN  CASE go = "return" ->
                  /\ pc' = "returned"
                  /\ end_kind' = IF cancel_observed THEN "cancelled"
                                 ELSE "remote_failed"
                  /\ UNCHANGED <<status_text, callHist>>
             [] go = "no_output" ->
                  /\ pc' = "returned"
                  /\ end_kind' = "no_output"
                  /\ status_text' = set_status(Text("no_output_id"))
                  /\ UNCHANGED callHist
             [] OTHER ->
                  /\ pc' = "download_inflight"
                  /\ status_text' = set_status(Text("downloading"))
                  /\ StartCall("download")
                  /\ UNCHANGED end_kind
    /\ UNCHANGED <<outerVars, prepVars, remoteVars, fieldVars, waitVars, pollVars,
                   obsVars, complete_count>>

\* download_batch_results returns the path (509) or re-raises (513).
DownloadReturn ==
    /\ pc = "download_inflight"
    /\ \/ pc' = "parse" /\ failed_call' = failed_call
       \/ Raise("download")
    /\ UNCHANGED <<outerVars, prepVars, remoteVars, fieldVars, waitVars, pollVars,
                   cancel_observed, terminal_seen, callHist, status_text,
                   complete_count, end_kind>>

\* Lines 164-165: parse_batch_results returns the records, or re-raises
\* when the results file cannot be read (596-598).
Parse ==
    /\ pc = "parse"
    /\ status_text' = set_status(Text("parsing"))
    /\ \/ pc' = "export" /\ failed_call' = failed_call
       \/ Raise("parse")
    /\ UNCHANGED <<outerVars, prepVars, remoteVars, fieldVars, waitVars, pollVars,
                   cancel_observed, terminal_seen, callHist, complete_count,
                   end_kind>>

\* Lines 167-173: export_to_excel (its result is not inspected), the final
\* status and notify_complete.
Export ==
    /\ pc = "export"
    /\ status_text' = set_status(Text("batch_done"))
    /\ complete_count' = notify_complete
    /\ end_kind' = "completed"
    /\ pc' = "returned"
    /\ UNCHANGED <<outerVars, prepVars, remoteVars, fieldVars, waitVars, pollVars,
                   obsVars, callHist>>

\* Lines 175-177: the except clause logs, sets the status and falls off the
\* end of process_data.
Except ==
    /\ pc = "except"
    /\ status_text' = set_status(TextOf("error", failed_call))
    /\ end_kind' = "error"
    /\ pc' = "returned"
    /\ UNCHANGED <<outerVars, prepVars, remoteVars, fieldVars, waitVars, pollVars,
                   obsVars, callHist, complete_count>>

\* ------------------------------------------------ the callers: finishing

\* What the caller shows once process_data has handed o to it.
\* GUI (796-844): an exception gives the error dialog; otherwise a set stop
\* event gives "cancelled", anything else the completion message.
\* CLI (1150-1155): an exception prints the error, otherwise completion.
CallerView(o) ==
    IF o.raised THEN "error"
    ELSE IF caller = "gui" /\ stop_event THEN "cancelled"
    ELSE "completed"

CallerReturn ==
    /\ pc = "returned"
    /\ view' = CallerView(Outcome(end_kind))
    /\ seen' = seen \cup {<<end_kind, Outcome(end_kind)>>}
    /\ status_text' = IF caller = "gui"
                         THEN TextOf("gui", CallerView(Outcome(end_kind)))
                         ELSE status_text
    /\ pc' = "idle"
    /\ UNCHANGED <<caller, stop_event, runs, textVars, prepVars, remoteVars, fieldVars,
                   waitVars, pollVars, obsVars, callHist, complete_count, end_kind>>

\* GUI thread, _stop_extraction (862-876): the stop button, enabled while
\* an extraction is shown as running, sets the shared event.
StopExtraction ==
    /\ caller = "gui"
    /\ view = "extracting"
    /\ stop_event' = TRUE
    /\ UNCHANGED <<caller, pc, runs, view, seen, textVars, prepVars, remoteVars,
                   fieldVars, waitVars, pollVars, obsVars, callHist, status_text,
                   complete_count, end_kind>>

\* ---------------------------------------------------- the remote service

\* The job moves on by itself: pending -> running -> completed | failed,
\* or is cancelled remotely; a completed job may lack its output file id.
RemoteStep ==
    /\ remote_status \in NonTerminal
    /\ \/ /\ remote_status = "pending"
          /\ remote_status' = "running"
          /\ UNCHANGED remote_output
       \/ /\ remote_status' = "completed"
          /\ remote_output' \in BOOLEAN
       \/ /\ remote_status' \in {"failed", "canceled"}
          /\ UNCHANGED remote_output
    /\ UNCHANGED <<outerVars, pc, prepVars, fieldVars, waitVars, pollVars, obsVars,
                   callHist, status_text, complete_count, end_kind>>

\* ------------------------------------------------------- specifications
Worker ==
    \/ Entry \/ ProcessInput \/ PrepareRow
    \/ UploadStart \/ UploadReturn \/ CreateStart \/ CreateReturn
    \/ WaitTick \/ CheckReturn \/ Sleep
    \/ AfterWaitStep \/ DownloadReturn \/ Parse \/ Export \/ Except
    \/ CallerReturn

Next == StartExtraction \/ Worker \/ StopExtraction \/ RemoteStep

Spec == Init /\ [][Next]_vars

\* The worker thread keeps running: each of its steps, once it can be
\* taken, is taken (calls return, sleeps end).
FairSpec == Spec /\ WF_vars(Worker)

\* -------------------------------------------- json_utils, function by function
\* The functions of json_utils.py are pure: a call is one step from the
\* text, the expected keys and the build to the value (or the exception).
JsonInit ==
    /\ AtRest
    /\ fn = "none"
    /\ input_str \in Inputs
    /\ expected_keys \in KeyLists
    /\ HAS_JSON_REPAIR \in LibModes
    /\ out = NoOut
    /\ HAS_JSON_UTILS = FALSE
    /\ ids = << >>
    /\ results_file = << >>
    /\ line_no = 1
    /\ results = << >>

orchVars == <<caller, stop_event, pc, runs, rows, idx, written, remote_status,
              remote_output, batch_id, input_file_id, output_file_id,
              error_file_id, progress, waits, checks_since_wait, status,
              wait_ret, iteration, sleep_for, status_text, complete_count,
              view, calls, failed_call, end_kind, cancel_observed,
              call_after_cancel, call_after_failure, calls_while_stopped,
              terminal_seen, check_after_terminal, seen>>

Call(f, v) ==
    /\ fn = "none"
    /\ fn' = f
    /\ out' = v
    /\ UNCHANGED <<input_str, expected_keys, HAS_JSON_REPAIR, parseVars,
                   orchVars>>

CallFix == Call("fix_json_response",
                fix_json_response(input_str, expected_keys, HAS_JSON_REPAIR))
CallTryParse == Call("try_parse_json_object",
                     try_parse_json_object(input_str, HAS_JSON_REPAIR))
CallRepair == Call("repair_json",
                   Parsed(repair_json(input_str, HAS_JSON_REPAIR), "repair"))

JsonNext == CallFix \/ CallTryParse \/ CallRepair
JsonSpec == JsonInit /\ [][JsonNext]_vars

\* ------------------------------------- from the input table to the records
\* The completions that the model returns for a request, and the lines that
\* a result file can hold beyond those of the requests.
GoodContent == DictOf(KeyTerms, <<"[">> \o Quoted(<<"a">>) \o <<"]">>)
Contents ==
    {GoodContent,
     <<"w">>,
     Fenced(<<"{", SQ, "terms", SQ, ":", "[", SQ, "a", SQ, ",", "]", "}">>),
     <<"big">>,
     DictOf(KeyTerms, <<"1">>)}
ForeignLines ==
    {Line("garbage", << >>, << >>),
     Line("no_id", << >>, GoodContent),
     Line("id_not_string", << >>, GoodContent),
     Line("no_choices", <<"R", "0">>, << >>),
     Line("result", << >>, GoodContent),
     Line("result", <<"R", "9">>, GoodContent),
     Line("result", <<"a">>, GoodContent),
     Line("result", <<"1", "-", "a">>, GoodContent)}

\* The id column of a table of n rows: the virtual id that
\* _process_input_data adds to a single-column table (the index, as a
\* string), or a column of the table's own.
VirtualIds(n) == [i \in 1..n |-> Str(i - 1)]
IdColumns(n) ==
    {VirtualIds(n), [i \in 1..n |-> <<"a">> \o Str(i)],
     [i \in 1..n |-> Str(n - i)]}

ParseInit ==
    /\ AtRest
    /\ fn = "none"
    /\ input_str = << >>
    /\ expected_keys = << >>
    /\ HAS_JSON_REPAIR \in LibModes
    /\ out = NoOut
    /\ HAS_JSON_UTILS \in BOOLEAN
    /\ ids = << >>
    /\ results_file = << >>
    /\ line_no = 1
    /\ results = << >>

restVars == <<caller, stop_event, runs, idx, written, remote_status,
              remote_output, batch_id, input_file_id, output_file_id,
              error_file_id, progress, waits, checks_since_wait, status,
              wait_ret, iteration, sleep_for, status_text, complete_count,
              view, calls, end_kind, cancel_observed, call_after_cancel,
              call_after_failure, calls_while_stopped, terminal_seen,
              check_after_terminal, seen, jsonVars>>

\* _process_input_data returns a frame that is not empty, with its id column.
ReadTable ==
    /\ pc = "idle"
    /\ \E rs \in RowSeqs \ {<< >>} :
           /\ rows' = rs
           /\ ids' \in IdColumns(Len(rs))
    /\ pc' = "prepare"
    /\ UNCHANGED <<restVars, failed_call, HAS_JSON_UTILS, results_file,
                   line_no, results>>

\* The remote job, from the upload to the download: one result line for each
\* request line, with the custom_id of the request, and at most one line more.
Respond ==
    /\ pc = "upload_start"
    /\ \E cs \in [1..Len(written) -> Contents],
          more \in {<< >>} \cup {<<l>> : l \in ForeignLines} :
           results_file' =
               [i \in 1..Len(written) |-> Line("result", written[i], cs[i])]
                   \o more
    /\ pc' = "parse"
    /\ UNCHANGED <<restVars, failed_call, rows, HAS_JSON_UTILS, ids, line_no,
                   results>>

\* parse_batch_results, one pass of the line loop (534-578), with the call
\* of _process_api_response (568).
ParseLine ==
    /\ pc = "parse"
    /\ line_no <= Len(results_file)
    /\ \E line \in {results_file[line_no]} :
       \E r \in {fix_json_response(line.content, <<KeyTerms>>,
                                   HAS_JSON_REPAIR)} :
       \E t \in {TermList(ResponseValue(line.content, HAS_JSON_UTILS, r))} :
       \E raised \in {LineRaises(line, t)} :
       \E ns \in {Normal(Kept(t.terms))} :
           IF OnLineError(raised) = "abort"
              THEN Raise("parse") /\ UNCHANGED <<line_no, results>>
              ELSE /\ line_no' = line_no + 1
                   /\ results' = IF raised THEN results
                                 ELSE results \o Records(line, ns)
                   /\ UNCHANGED <<pc, failed_call>>
    /\ UNCHANGED <<restVars, rows, HAS_JSON_UTILS, ids, results_file>>

\* parse_batch_results returns the records (601) and process_data goes on
\* to the export (167).
ParseReturn ==
    /\ pc = "parse"
    /\ line_no > Len(results_file)
    /\ pc' = "export"
    /\ UNCHANGED <<restVars, failed_call, rows, parseVars>>

ParseNext ==
    ReadTable \/ PrepareRow \/ Respond \/ ParseLine \/ ParseReturn \/ Export
ParseSpec == ParseInit /\ [][ParseNext]_vars

\* ----------------------------------------------- custom_id, as a function
IdChars == {"R", "0", "1", "-", "a"}
MaxIdLen == 3
CustomIds == UNION {[1..n -> IdChars] : n \in 0..MaxIdLen}

IdInit ==
    /\ AtRest
    /\ fn = "none"
    /\ input_str \in CustomIds
    /\ expected_keys = << >>
    /\ HAS_JSON_REPAIR = "absent"
    /\ out = NoOut
    /\ HAS_JSON_UTILS = FALSE
    /\ ids = << >>
    /\ results_file = << >>
    /\ line_no = 1
    /\ results = << >>

CallRowId == Call("row_id_of", Parsed(row_id_of(input_str), "row_id"))
IdNext == CallRowId
IdSpec == IdInit /\ [][IdNext]_vars

\* ------------------------------------------------- the normalizer, alone
\* Lines 649-657 and _normalize_term as single calls: on a parsed value
\* (what the methods of 612-642 leave in `result`) and on one term entry.
MaxTerms == 2
MaxMembers == 2

\* [e1, e2, ...]
RECURSIVE Joined(_)
Joined(es) ==
    IF es = << >> THEN << >>
    ELSE IF Len(es) = 1 THEN es[1]
    ELSE es[1] \o <<",">> \o Joined(Tail(es))
ListOf(es) == <<"[">> \o Joined(es) \o <<"]">>

EntryKeys ==
    {<<"term">>, <<"shuyu">>, <<"name">>, <<"type">>, <<"leixing">>,
     <<"context">>, <<"sentence">>, <<"x">>}
EntryValues == {Quoted(<< >>), Quoted(<<"a">>), Quoted(<<"b">>), <<"1">>}
PairSeqs ==
    {ps \in UNION {[1..n -> EntryKeys \X EntryValues] : n \in 0..MaxMembers} :
        \A i, j \in 1..Len(ps) : i # j => ps[i][1] # ps[j][1]}
Mappings == {ObjectOf(ps) : ps \in PairSeqs}
EntryInputs ==
    Mappings \cup {Quoted(<< >>), Quoted(<<"a">>), <<"1">>, <<"true">>}

ListEntries ==
    {Quoted(<<"a">>), Quoted(<< >>), EmptyObject,
     DictOf(<<"term">>, Quoted(<< >>)), DictOf(<<"name">>, Quoted(<<"b">>)),
     <<"1">>, <<"0">>}
TermLists ==
    {ListOf(es) : es \in UNION {[1..n -> ListEntries] : n \in 0..MaxTerms}}
OddTerms ==
    {Quoted(<<"a", "b">>), Quoted(<< >>), DictOf(KeyA, <<"1">>), EmptyObject,
     <<"1">>, <<"0">>, <<"true">>}
ResultInputs ==
    TermLists
        \cup {DictOf(KeyTerms, v) : v \in TermLists \cup OddTerms}
        \cup {EmptyObject, DictOf(<<"items">>, ListOf(<<Quoted(<<"a">>)>>)),
              AddKey(DictOf(KeyA, <<"1">>), KeyTerms,
                     ListOf(<<Quoted(<<"a">>)>>))}

TermInit ==
    /\ AtRest
    /\ fn = "none"
    /\ input_str \in EntryInputs \cup ResultInputs
    /\ expected_keys = << >>
    /\ HAS_JSON_REPAIR = "absent"
    /\ out = NoOut
    /\ HAS_JSON_UTILS = FALSE
    /\ ids = << >>
    /\ results_file = << >>
    /\ line_no = 1
    /\ results = << >>

\* What a call of lines 649-657 leaves: the list, or the TypeError.
Listed(t, how) ==
    IF t.raised THEN Escapes("TypeError", how) ELSE Parsed(t.terms, how)

\* Lines 650-654 and the iteration of 657: the entries the loop sees.
CallTermList ==
    /\ input_str \in ResultInputs
    /\ \E t \in {TermsOf(input_str)} : Call("term_list", Listed(t, "terms"))

\* Lines 650-657: the records of a parsed value.
CallProcessResult ==
    /\ input_str \in ResultInputs
    /\ \E t \in {TermsOf(input_str)} :
       \E ns \in {Normal(Kept(t.terms))} :
           Call("process_result",
                IF t.raised THEN Escapes("TypeError", "records")
                ELSE Parsed(ns, "records"))

CallNormalizeTerm ==
    /\ input_str \in EntryInputs
    /\ \E n \in {normalize_term(input_str)} :
           Call("_normalize_term", Parsed(n, "normalize"))

TermNext == CallTermList \/ CallProcessResult \/ CallNormalizeTerm
TermSpec == TermInit /\ [][TermNext]_vars

\* ============================================================ properties

RemoteCalls == {"upload", "create", "check", "download"}
Range(s) == {s[i] : i \in 1..Len(s)}
IsPrefix(s, t) == Len(s) <= Len(t) /\ \A i \in 1..Len(s) : s[i] = t[i]
Finished == pc = "idle" /\ runs > 0

\* The call sequences upload, create, one or more checks, download.
CallPatterns ==
    {<<"upload", "create">> \o [i \in 1..k |-> "check"] \o <<"download">> :
         k \in 1..MaxLog}

\* C1: once the poll loop has found the stop flag set at the start of a
\* tick, the invocation starts no further remote call of any kind.
C1_NoCallAfterCancelObserved == ~call_after_cancel

\* C1 witness: an invocation ended after the poll loop took the cancel exit
\* with polls behind it.
C1_Witness ==
    /\ Finished /\ cancel_observed /\ end_kind = "cancelled"
    /\ "check" \in Range(calls)

\* C2: download_batch_results is started only after a poll returned
\* 'completed' with an output_file_id; an invocation that ended on a missing
\* output id, a failed or canceled job, or an observed user cancel made no
\* download call.
C2_DownloadOnlyAfterCompletedWithOutput ==
    /\ "download" \in Range(calls) =>
          /\ wait_ret = "status"
          /\ status.status = "completed"
          /\ status.output_file_id
    /\ end_kind \in {"no_output", "remote_failed", "cancelled"} =>
          "download" \notin Range(calls)

\* C2 witness: one invocation ended on the missing output id, and the next
\* one has its download in flight.
C2_Witness ==
    /\ \E p \in seen : p[1] = "no_output"
    /\ pc = "download_inflight"

\* C3: a job that completed without an output reference gives the caller an
\* outcome different from that of a successful run and from that of a
\* failed remote job, and the caller does not show completion for it.
C3_NoOutputIsDistinctFailure ==
    /\ \A p, q \in seen :
          (p[1] = "no_output" /\ q[1] \in {"completed", "remote_failed"})
              => p[2] # q[2]
    /\ (Finished /\ end_kind = "no_output") => view # "completed"

\* C4: the outcome process_data hands over after an observed user cancel
\* differs from the one it hands over after a failed or canceled remote job.
C4_CancelledDistinctFromFailed ==
    \A p, q \in seen :
        (p[1] = "cancelled" /\ q[1] = "remote_failed") => p[2] # q[2]

\* C5: when the stop flag is set before upload_batch_file is called, the
\* upload (and with it the job creation) is not performed.
C5_NoUploadOnceStopped == "upload" \notin calls_while_stopped

\* C6: no remote call of any kind is started while the stop flag is set.
C6_NoCallStartedWhileStopped == calls_while_stopped = {}

C8_LifecycleErrorsEscalate ==
    (Finished /\ (end_kind = "remote_failed"
                  \/ (end_kind = "error" /\ failed_call \in RemoteCalls)))
        => view # "completed"

\* C9: after a poll returned completed, failed or canceled, no status check
\* is started in that invocation.
C9_TerminalPollIsLast == ~check_after_terminal

\* C9 witness: the poll loop saw a canceled job after an earlier poll and
\* the invocation is over.
C9_Witness ==
    /\ Finished /\ terminal_seen /\ status.status = "canceled"
    /\ iteration > 0

\* C10: the poll loop always terminates: whenever the worker is in the
\* loop it eventually leaves it.
PollPcs == {"wait_tick", "check_inflight", "sleep"}
C10_PollingTerminates == (pc \in PollPcs) ~> (pc \notin PollPcs)

\* ------------------------------------------------ the request builder

BlankTexts == {"blank", "spaces"}

\* The ids the builder owes after the first n rows: "request-row" + i for
\* each row index i < n whose text is not blank, in row order.
RECURSIVE Retained(_)
Retained(n) ==
    IF n = 0 THEN << >>
    ELSE IF rows[n] \in BlankTexts THEN Retained(n - 1)
    ELSE Append(Retained(n - 1), <<"R">> \o Str(n - 1))

\* C12: the custom_ids written are exactly "request-row" + i for the rows i
\* passed so far whose text is not empty or whitespace-only, in row order
\* (a skipped row gets no id and shifts no later id), pairwise distinct.
C12_IdsFollowRowIndex ==
    /\ written = Retained(Min(idx - 1, Len(rows)))
    /\ \A j, k \in 1..Len(written) : j # k => written[j] # written[k]

\* C12 witness: a whitespace-only row was skipped and the row after it was
\* written under its own index.
C12_Witness ==
    /\ rows = <<"spaces", "text">>
    /\ written = <<CustomId(1)>>
    /\ pc = "upload_start"

\* C13: when every row of a non-empty table is blank, so that the builder
\* retains none, process_data starts no upload (and so no job creation).
C13_NoUploadOfEmptyBatch ==
    (rows # << >> /\ \A i \in 1..Len(rows) : rows[i] \in BlankTexts)
        => "upload" \notin Range(calls)

\* -------------------------------------------------------- the repair chain
Entries == {"fix_json_response", "try_parse_json_object"}

\* C16: the repair entry points never raise, whatever the input text and
\* whatever the strategies do; they always return an object.
C16_RepairNeverRaises ==
    /\ fn \in Entries => out.exc = "none"
    /\ fn = "fix_json_response" /\ out.exc = "none" => IsDict(out.result)

\* The expected keys that the object d lacks, each with an empty list.
Added(d, keys) ==
    LET missing == SelectSeq(keys, LAMBDA k : ~HasKey(d, k))
    IN  [i \in 1..Len(missing) |-> <<missing[i], <<"[", "]">> >>]

C19_TrailingCommaKeepsValues ==
    \A o \in Objects \ {EmptyObject} :
        (fn \in Entries /\ input_str = TrailingComma(o)
                /\ expected_keys = << >>)
            => out.exc = "none" /\ out.result = o

Rewritten(c) ==
    \/ Occurs(<<"{", "{">>, c) \/ Occurs(<<"}", "}">>, c)
    \/ Occurs(<<DQ, "[", "{">>, c) \/ Occurs(<<"}", "]", DQ>>, c)
    \/ Occurs(<<EDQ>>, c)

RecordsFrom(c) == SelectSeq(results, LAMBDA rec : rec.from = c)

\* C11: a record whose line carries the custom_id that the builder wrote for
\* a source row has, as its row_id, the id of that row.
C11_RowIdIsSourceId ==
    \A i \in 1..Len(rows) : \A k \in 1..Len(results) :
        (rows[i] \notin BlankTexts /\ results[k].from = <<"R">> \o Str(i - 1))
            => results[k].row_id = ids[i]

\* C14 as the specification states it: "request-row" + N maps to N and a
\* custom_id of any other form maps to itself.
C14_OtherFormsPassThrough ==
    fn = "row_id_of"
        => IF StartsWith(input_str, <<"R">>) /\ IsDigits(Drop(input_str, 1))
              THEN out.result = Drop(input_str, 1)
              ELSE out.result = input_str

\* C14, amended: a custom_id that starts with "request-row" maps to itself
\* with every "request-row" taken out (so "request-row" + N maps to N); any
\* other custom_id whose part before its first hyphen is all digits maps to
\* that part; every other custom_id maps to itself.
C14_RowIdOfCustomId ==
    fn = "row_id_of"
        => LET hyphens == {i \in 1..Len(input_str) : input_str[i] \in {"-", "R"}}
               first == CHOOSE i \in hyphens : \A j \in hyphens : i <= j
           IN  IF input_str # << >> /\ input_str[1] = "R"
                  THEN out.result = Without(input_str, {"R"})
               ELSE IF /\ hyphens # {}
                       /\ input_str[first] = "-"
                       /\ first > 1
                       /\ \A j \in 1..(first - 1) : input_str[j] \in DigitChars
                  THEN out.result = SubSeq(input_str, 1, first - 1)
               ELSE out.result = input_str
C14_Witness ==
    /\ fn = "row_id_of"
    /\ input_str = <<"1", "-", "a">>
    /\ out.result = <<"1">>

\* C15: the records of a line whose custom_id the builder did not write (or
\* that has none) are kept, with the row_id "unknown".
Unissued(line) == line.shape # "result" \/ line.custom_id \notin Range(written)
C15_UnissuedIdIsUnknown ==
    \A k \in 1..Min(line_no - 1, Len(results_file)) :
        LET line == results_file[k]
        IN  (Unissued(line) /\ line.shape # "no_choices"
                 /\ line.content = GoodContent)
                => \E j \in 1..Len(results) :
                       results[j].row_id = <<"unknown">>

\* C17: a line whose completion cannot be parsed never stops the loop: every
\* line is read, a request's line with a good completion gives its record
\* whatever the other lines hold, a line with no structured content gives no
\* record, and the invocation ends as completed.
C17_BadLineNeverAborts ==
    /\ pc # "except"
    /\ \A k \in 1..Min(line_no - 1, Len(written)) :
           LET line == results_file[k]
           IN  /\ line.content = GoodContent
                      => RecordsFrom(line.custom_id)
                             = <<[row_id |-> Str(CHOOSE i \in 0..Len(rows) :
                                                     CustomId(i) = line.custom_id),
                                  term |-> DictOf(<<"term">>, Quoted(<<"a">>)),
                                  from |-> line.custom_id]>>
               /\ line.content = <<"w">> => RecordsFrom(line.custom_id) = << >>
    /\ pc \in {"export", "returned"} => line_no = Len(results_file) + 1
    /\ pc = "returned" => end_kind = "completed"
C17_Witness ==
    /\ pc = "returned"
    /\ Len(results_file) = 2
    /\ results_file[1].content = <<"w">>
    /\ results_file[2].content = GoodContent
    /\ results_file[2].custom_id = CustomId(1)
    /\ Len(results) = 1

\* The term list that belongs to a parsed value: the list under `terms`,
\* else the value itself when it is a list, else nothing.
TermListGiven(v) ==
    IF IsDict(v) /\ HasKey(v, KeyTerms) /\ IsList(ValueOf(v, KeyTerms))
       THEN Elements(ValueOf(v, KeyTerms))
    ELSE IF IsList(v) THEN Elements(v)
    ELSE << >>
HasTermList(v) ==
    \/ IsList(v)
    \/ IsDict(v) /\ HasKey(v, KeyTerms) /\ IsList(ValueOf(v, KeyTerms))

\* An entry from which no term resolves: the empty string, the empty
\* mapping, a mapping with only empty values.
NoTermIn(e) ==
    \/ e = Quoted(<< >>)
    \/ IsDict(e) /\ \A i \in 1..Len(Members(e)) : ~Truthy(Members(e)[i][2])

\* C21: a term list of n entries yields exactly n records, and an entry
\* from which no term resolves yields a record with the sentinel term
\* instead of being dropped.
C21_NoRecordLost ==
    (fn = "process_result" /\ HasTermList(input_str)) =>
        /\ out.exc = "none"
        /\ Len(out.result) = Len(TermListGiven(input_str))
        /\ \A i \in 1..Len(TermListGiven(input_str)) :
               NoTermIn(TermListGiven(input_str)[i]) =>
                   ValueOf(out.result[i], <<"term">>) = Sentinel

\* C25: the term list of a parsed value is the value of `terms` when that
\* is a list, else the value itself when it is a list, else empty; a
\* `terms` value that is a string, a mapping or a number gives no term,
\* and no exception.
C25_TermListOfResult ==
    fn = "term_list" =>
        out.exc = "none" /\ out.result = TermListGiven(input_str)

\* C26: _normalize_term wraps a string s as {term: s}; for a mapping each
\* of term, type, context gets the value of the first name of its synonym
\* list that the entry has with a non-empty value, and without any such
\* name for term, term gets the first non-empty value of the entry, or
\* the sentinel when every value is empty.
Good(d, k) == HasKey(d, k) /\ Truthy(ValueOf(d, k))
FieldFollows(d, r, f, names) ==
    IF \E i \in 1..Len(names) : Good(d, names[i])
       THEN /\ HasKey(r, f)
            /\ \E i \in 1..Len(names) :
                   /\ Good(d, names[i])
                   /\ \A j \in 1..(i - 1) : ~Good(d, names[j])
                   /\ ValueOf(r, f) = StrOf(ValueOf(d, names[i]))
       ELSE f = <<"term">> \/ ~HasKey(r, f)
FallbackFollows(d, r) ==
    (\A i \in 1..Len(TermNames) : ~Good(d, TermNames[i])) =>
        /\ HasKey(r, <<"term">>)
        /\ IF \E i \in 1..Len(Members(d)) : Truthy(Members(d)[i][2])
              THEN \E i \in 1..Len(Members(d)) :
                      /\ Truthy(Members(d)[i][2])
                      /\ \A j \in 1..(i - 1) : ~Truthy(Members(d)[j][2])
                      /\ ValueOf(r, <<"term">>) = StrOf(Members(d)[i][2])
              ELSE ValueOf(r, <<"term">>) = Sentinel
C26_NormalizeTerm ==
    fn = "_normalize_term" =>
        /\ out.exc = "none"
        /\ input_str[1] = DQ => out.result = DictOf(<<"term">>, input_str)
        /\ IsDict(input_str) =>
               /\ Keys(out.result) \subseteq
                      {<<"term">>, <<"type">>, <<"context">>}
               /\ FieldFollows(input_str, out.result, <<"term">>, TermNames)
               /\ FieldFollows(input_str, out.result, <<"type">>, TypeNames)
               /\ FieldFollows(input_str, out.result, <<"context">>,
                               ContextNames)
               /\ FallbackFollows(input_str, out.result)
\* The entry {"name": "a", "term": "b"}: term precedes name in the list.
C26_Witness ==
    /\ fn = "_normalize_term"
    /\ input_str = AddKey(DictOf(<<"name">>, Quoted(<<"a">>)),
                          <<"term">>, Quoted(<<"b">>))
    /\ out.result = DictOf(<<"term">>, Quoted(<<"b">>))

\* C22: the sleep after each of the first 3 status checks of a wait is 5
\* seconds, the sleep after every later check is 15 seconds, the interval
\* never goes back to 5, and exactly one status check lies between two
\* sleeps.
C22_WaitSchedule ==
    /\ \A i \in 1..Len(waits) : waits[i] = IF i <= 3 THEN 5 ELSE 15
    /\ \A i, j \in 1..Len(waits) : (i < j /\ waits[i] = 15) => waits[j] = 15
    /\ checks_since_wait <= 1
    /\ pc = "sleep" =>
           /\ waits # << >>
           /\ sleep_for = waits[Len(waits)]
           /\ checks_since_wait = 1
C22_Witness ==
    /\ pc = "sleep"
    /\ waits = <<5, 5, 5, 15>>
    /\ sleep_for = 15

C27_CreateStoresOnSuccess ==
    [][pc = "create_inflight" =>
           IF pc' = "wait_tick"
              THEN /\ batch_id' = "job" /\ input_file_id' = "file"
                   /\ UNCHANGED <<output_file_id, error_file_id>>
              ELSE UNCHANGED <<batch_id, input_file_id, output_file_id,
                               error_file_id>>]_vars
C27_Witness ==
    /\ pc = "except"
    /\ failed_call = "create"
    /\ batch_id = "None" /\ input_file_id = "None"

\* C28: in one invocation notify_complete fires at most once, and only in
\* the step that follows the export, which follows the parse, which
\* follows the download of a job whose status check returned completed
\* with an output reference; never where the loop observed the stop flag,
\* a remote call raised, or the job ended failed or canceled.
C28_CompleteOnlyAfterExport ==
    /\ [](/\ complete_count <= 1
          /\ pc \in {"parse", "export"} =>
                 /\ calls[Len(calls)] = "download"
                 /\ wait_ret = "status"
                 /\ status.status = "completed" /\ status.output_file_id
                 /\ ~cancel_observed
                 /\ failed_call = "none"
          /\ complete_count = 1 => end_kind = "completed")
    /\ [][/\ pc' = "export" /\ pc # "export" => pc = "parse"
          /\ pc' = "parse" /\ pc # "parse" => pc = "download_inflight"
          /\ (complete_count' # complete_count /\ runs' = runs) =>
                 /\ pc = "export"
                 /\ complete_count' = complete_count + 1
                 /\ failed_call' = "none"]_vars
C28_Witness ==
    /\ caller = "gui"
    /\ complete_count = 1
    /\ end_kind = "completed"

\* C29: the stop flag, once set, stays set, and a process_data call that
\* is entered with the flag set returns without a remote call.
C29_StopIsSticky ==
    /\ [][stop_event => stop_event']_vars
    /\ [](pc = "entry" => calls = << >>)
    /\ [][(pc = "entry" /\ StopIsSet) =>
              /\ pc' \in {"entry", "returned"}
              /\ calls' = << >>]_vars
    /\ [](end_kind = "stopped_at_entry" => calls = << >>)
\* The second invocation, after the first was stopped.
C29_Witness ==
    /\ runs = 2
    /\ stop_event
    /\ pc = "returned"
    /\ end_kind = "stopped_at_entry"
    /\ calls = << >>

\* C30: the poll loop ends only on completed, failed, canceled, an observed
\* stop flag or an exception of the status check; after any other status
\* (running, or one the code does not name, as "pending") it returns
\* nothing, sleeps by the schedule and polls again.
C30_OnlyTerminalEnds ==
    /\ [](pc = "after_wait" =>
              \/ wait_ret = "status" /\ status.status = "completed"
              \/ wait_ret = "None" /\ status.status \in {"failed", "canceled"}
              \/ wait_ret = "None" /\ cancel_observed)
    /\ [](pc = "except" /\ calls # << >> /\ calls[Len(calls)] = "check" =>
              failed_call = "check")
    /\ [][(pc = "check_inflight" /\ pc' # pc /\ failed_call' = "none"
               /\ remote_status \notin {"completed", "failed", "canceled"}) =>
              /\ pc' = "sleep"
              /\ sleep_for' \in {5, 15}
              /\ wait_ret' = "unset"]_vars
    /\ [][(pc = "sleep" /\ pc' # pc) => pc' = "wait_tick"]_vars
C30_Witness ==
    /\ pc = "sleep"
    /\ status.status = "pending"
    /\ iteration = 3

\* C24: the chain tries direct parse, span extraction, fence stripping,
\* syntax repair, literal expression and key-value salvage in this order,
\* parses the candidate of each before the next one runs, and returns the
\* result of the first strategy whose candidate parses.
C24_FirstSuccessWins ==
    (fn = "try_parse_json_object" /\ input_str # << >> /\ out.exc = "none") =>
        IF Loads(input_str) = "ok"
           THEN out = Parsed(input_str, "direct")
        ELSE IF Loads(Extract(input_str)) = "ok"
           THEN out.result = Extract(input_str)
        ELSE IF Loads(Clean(Extract(input_str))) = "ok"
           THEN out = Parsed(Clean(Extract(input_str)), "cleaned")
        ELSE IF Loads(repair_json(Clean(Extract(input_str)),
                                  HAS_JSON_REPAIR)) = "ok"
           THEN out.via = "repair"
        ELSE IF TryParseAst(Clean(Extract(input_str))) # EmptyObject
           THEN out.via = "ast"
        ELSE out.via = "salvage"

====
